---------------------------- MODULE Spec2Model ----------------------------
(***************************************************************************)
(* Model of the Wordle constraint tracker of src/src/lib.rs (WordleGame)   *)
(* and of the calls its shell (src/src/main.rs) makes on it.               *)
(*                                                                         *)
(* Words are sequences of one-character strings.  Rust positions are       *)
(* 0-based; a vector is a TLA+ sequence, so position p of the source is    *)
(* element p + 1 here (At, SetAt); positions in results are the source's   *)
(* 0-based ones.  All characters are one byte long (ASCII letters), so     *)
(* str::len() is the number of characters and char_indices() yields        *)
(* 0, 1, 2, ...                                                            *)
(*                                                                         *)
(* An out-of-range index (a Rust panic) ends the process: the operators    *)
(* return panic = TRUE and the state variable aborted records it.          *)
(***************************************************************************)
EXTENDS Integers, Sequences, FiniteSets, TLC

VARIABLES
    num,                   \* WordleGame.num
    perfect_guess_so_far,  \* WordleGame.perfect_guess_so_far
    information,           \* WordleGame.information (tag "None": key not in the map)
    aborted,               \* the process panicked
    updates,               \* number of update calls made so far
    last,                  \* the last call: its arguments and what it returned
    solution               \* the hidden word of the game being played (<<>>: none)

vars == <<num, perfect_guess_so_far, information, aborted, updates, last, solution>>

-----------------------------------------------------------------------------
(* Bounds *)

\* the longest word length a session of Spec and SpecAnyLen is started with
MaxNum == 2
\* the longest word length a game of SpecGame is started with
MaxGameNum == 3
\* the number of update calls of a session
MaxUpdates == 4

\* the characters the shell's user types
Letters == {"a", "b"}
GameLetters == {"a", "b", "c"}
ScenarioLetters == {"s", "o", "d", "a", "n"}
Alphabet == Letters \cup GameLetters \cup ScenarioLetters
ResultChars == {"y", "m", "n"}

RECURSIVE WordsOver(_, _)
WordsOver(S, n) ==
    IF n = 0 THEN {<<>>}
    ELSE {Append(w, c) : w \in WordsOver(S, n - 1), c \in S}

WordsUpTo(S, n) == UNION {WordsOver(S, k) : k \in 0..n}

-----------------------------------------------------------------------------
(* Data types *)

\* enum PresentTypes
PresentTypes == {"No", "Maybe", "Yes"}

\* enum GuessResult
GuessResult == {"No", "Yes", "Somewhere"}

\* enum LetterInfo, and the missing key of the HashMap
NoEntry == [tag |-> "None", v |-> <<>>]
Absent == [tag |-> "Absent", v |-> <<>>]
Present(v) == [tag |-> "Present", v |-> v]

\* the '*' of perfect_guess_so_far
Unknown == "*"

\* v[p], p a 0-based position
At(v, p) == v[p + 1]
SetAt(v, p, x) == [v EXCEPT ![p + 1] = x]
InRange(v, p) == p >= 0 /\ p < Len(v)
Repeat(x, n) == [i \in 1..n |-> x]

-----------------------------------------------------------------------------
(* Free functions *)

from_char(c) ==
    CASE c = "y" -> "Yes"
      [] c = "m" -> "Somewhere"
      [] OTHER -> "No"

word_to_result(word) == [i \in 1..Len(word) |-> from_char(word[i])]

\* the vector ends at the position of the first data
generate_new_vec_short(n, p, result) ==
    IF ~(p < n) THEN [panic |-> TRUE, v |-> Repeat("Maybe", n)]
    ELSE [panic |-> FALSE,
          v |-> SetAt(Repeat("Maybe", p + 1), p,
                      IF result = "Yes" THEN "Yes" ELSE "No")]

\* r[p] = ... panics when p is not below n
generate_new_vec(n, p, result) ==
    IF ~(p < n) THEN [panic |-> TRUE, v |-> Repeat("Maybe", n)]
    ELSE [panic |-> FALSE,
          v |-> SetAt(Repeat("Maybe", n), p,
                      CASE result = "No" -> "No"
                        [] result = "Somewhere" -> "No"
                        [] result = "Yes" -> "Yes")]

-----------------------------------------------------------------------------
(* WordleGame *)

\* the fields of a WordleGame, with the flag of update and the panic mark
Game(n, fixed, info) ==
    [num |-> n, perfect_guess_so_far |-> fixed, information |-> info,
     flag |-> <<>>, panic |-> FALSE]

init(n) == Game(n, Repeat(Unknown, n), [c \in Alphabet |-> NoEntry])

Panic(g) == [g EXCEPT !.panic = TRUE]

\* the closure change_flag of update
change_flag(g, letter, pos) == [g EXCEPT !.flag = Append(@, <<letter, pos>>)]

\* the Miss arm leaves the Maybe cells as they are
MaybeToNoKeep(v, n) == v

\* the Miss arm writes No into every cell, the Yes cells too
MaybeToNoAll(v, n) == [i \in 1..Len(v) |-> IF i <= n THEN "No" ELSE v[i]]

\* the arm (GuessResult::No, LetterInfo::Present(v)): for i in 0..self.num
MaybeToNo(v, n) == [i \in 1..Len(v) |-> IF i <= n /\ v[i] = "Maybe" THEN "No" ELSE v[i]]

\* a Miss for a letter the map does not hold inserts a vector, as a Hit does
InsertLetterVecOnMiss(g, position, letter, result) ==
    LET r == generate_new_vec(g.num, position, result)
        g1 == [g EXCEPT !.information[letter] = Present(r.v)]
    IN  IF r.panic THEN Panic(g)
        ELSE IF result = "Yes" THEN change_flag(g1, letter, position)
        ELSE g1

\* a letter inserted with Somewhere is flagged as a Hit is
InsertLetterAlwaysFlag(g, position, letter, result) ==
    IF result = "No" THEN [g EXCEPT !.information[letter] = Absent]
    ELSE
        LET r == generate_new_vec(g.num, position, result)
            g1 == [g EXCEPT !.information[letter] = Present(r.v)]
        IN  IF r.panic THEN Panic(g)
            ELSE change_flag(g1, letter, position)

\* the arm None of update: the letter is not in the map
InsertLetter(g, position, letter, result) ==
    IF result = "No" THEN [g EXCEPT !.information[letter] = Absent]
    ELSE
        LET r == generate_new_vec(g.num, position, result)
            g1 == [g EXCEPT !.information[letter] = Present(r.v)]
        IN  IF r.panic THEN Panic(g)
            ELSE IF result = "Yes" THEN change_flag(g1, letter, position)
            ELSE g1

\* Somewhere for an Absent letter promotes it to a vector of No
MergeLetterPromoteOnSomewhere(g, position, letter, result, wordLen) ==
    LET p == g.information[letter] IN
    IF result = "No" /\ p.tag = "Absent" THEN g
    ELSE IF result = "No" /\ p.tag = "Present" THEN
        IF Len(p.v) < g.num THEN Panic(g)
        ELSE [g EXCEPT !.information[letter] = Present(MaybeToNo(p.v, g.num))]
    ELSE IF result = "Somewhere" /\ p.tag = "Absent" THEN
        [g EXCEPT !.information[letter] = Present(Repeat("No", wordLen))]
    ELSE IF result = "Somewhere" /\ p.tag = "Present" THEN
        IF ~InRange(p.v, position) THEN Panic(g)
        ELSE [g EXCEPT !.information[letter] = Present(SetAt(p.v, position, "No"))]
    ELSE IF result = "Yes" /\ p.tag = "Absent" THEN
        change_flag([g EXCEPT !.information[letter] =
                        Present(SetAt(Repeat("No", wordLen), position, "Yes"))],
                    letter, position)
    ELSE
        IF ~InRange(p.v, position) THEN Panic(g)
        ELSE change_flag([g EXCEPT !.information[letter] =
                             Present(SetAt(p.v, position, "Yes"))],
                         letter, position)

\* a Hit for an Absent letter promotes it to the vector generate_new_vec makes
MergeLetterPromoteMaybe(g, position, letter, result, wordLen) ==
    LET p == g.information[letter] IN
    IF result = "No" /\ p.tag = "Absent" THEN g
    ELSE IF result = "No" /\ p.tag = "Present" THEN
        IF Len(p.v) < g.num THEN Panic(g)
        ELSE [g EXCEPT !.information[letter] = Present(MaybeToNo(p.v, g.num))]
    ELSE IF result = "Somewhere" /\ p.tag = "Absent" THEN g
    ELSE IF result = "Somewhere" /\ p.tag = "Present" THEN
        IF ~InRange(p.v, position) THEN Panic(g)
        ELSE [g EXCEPT !.information[letter] = Present(SetAt(p.v, position, "No"))]
    ELSE IF result = "Yes" /\ p.tag = "Absent" THEN
        IF generate_new_vec(g.num, position, result).panic THEN Panic(g)
        ELSE change_flag([g EXCEPT !.information[letter] =
                             Present(generate_new_vec(g.num, position, result).v)],
                         letter, position)
    ELSE
        IF ~InRange(p.v, position) THEN Panic(g)
        ELSE change_flag([g EXCEPT !.information[letter] =
                             Present(SetAt(p.v, position, "Yes"))],
                         letter, position)

\* the arm Some(p) of update: the letter is in the map
MergeLetter(g, position, letter, result, wordLen) ==
    LET p == g.information[letter] IN
    IF result = "No" /\ p.tag = "Absent" THEN g
    ELSE IF result = "No" /\ p.tag = "Present" THEN
        IF Len(p.v) < g.num THEN Panic(g)
        ELSE [g EXCEPT !.information[letter] = Present(MaybeToNo(p.v, g.num))]
    ELSE IF result = "Somewhere" /\ p.tag = "Absent" THEN g
    ELSE IF result = "Somewhere" /\ p.tag = "Present" THEN
        IF ~InRange(p.v, position) THEN Panic(g)
        ELSE [g EXCEPT !.information[letter] = Present(SetAt(p.v, position, "No"))]
    ELSE IF result = "Yes" /\ p.tag = "Absent" THEN
        change_flag([g EXCEPT !.information[letter] =
                        Present(SetAt(Repeat("No", wordLen), position, "Yes"))],
                    letter, position)
    ELSE \* (GuessResult::Yes, LetterInfo::Present(p))
        IF ~InRange(p.v, position) THEN Panic(g)
        ELSE change_flag([g EXCEPT !.information[letter] =
                             Present(SetAt(p.v, position, "Yes"))],
                         letter, position)

\* one iteration of the loop of update
UpdateLetter(g, position, letter, result, wordLen) ==
    IF g.information[letter].tag = "None"
    THEN InsertLetter(g, position, letter, result)
    ELSE MergeLetter(g, position, letter, result, wordLen)

\* the loop of update over new_word.char_indices().zip(wordle_result.iter()),
\* from the k-th pair on
RECURSIVE UpdateLoop(_, _, _, _)
UpdateLoop(g, new_word, results, k) ==
    IF g.panic \/ k > Len(new_word) \/ k > Len(results) THEN g
    ELSE UpdateLoop(UpdateLetter(g, k - 1, new_word[k], results[k], Len(new_word)),
                    new_word, results, k + 1)

\* the other letters keep their cells
set_other_keys_fixed_only(g, pos, letter) ==
    IF ~InRange(g.perfect_guess_so_far, pos) THEN Panic(g)
    ELSE [g EXCEPT !.perfect_guess_so_far = SetAt(@, pos, letter)]

\* the letter's own cell is set to No with the others
set_other_keys_all_keys(g, pos, letter) ==
    IF ~InRange(g.perfect_guess_so_far, pos) THEN Panic(g)
    ELSE IF \E key \in Alphabet :
                /\ g.information[key].tag = "Present"
                /\ ~InRange(g.information[key].v, pos)
    THEN Panic(g)
    ELSE [g EXCEPT
            !.perfect_guess_so_far = SetAt(@, pos, letter),
            !.information = [key \in Alphabet |->
                IF @[key].tag = "Present"
                THEN Present(SetAt(@[key].v, pos, "No"))
                ELSE @[key]]]

set_other_keys(g, pos, letter) ==
    IF ~InRange(g.perfect_guess_so_far, pos) THEN Panic(g)
    ELSE IF \E key \in Alphabet :
                /\ key # letter
                /\ g.information[key].tag = "Present"
                /\ ~InRange(g.information[key].v, pos)
    THEN Panic(g)
    ELSE [g EXCEPT
            !.perfect_guess_so_far = SetAt(@, pos, letter),
            !.information = [key \in Alphabet |->
                IF key # letter /\ @[key].tag = "Present"
                THEN Present(SetAt(@[key].v, pos, "No"))
                ELSE @[key]]]

\* only the first Hit of the round is applied
FlagLoopFirstOnly(g, k) ==
    IF g.panic \/ k > Len(g.flag) THEN g
    ELSE set_other_keys(g, g.flag[k][2], g.flag[k][1])

\* the loop of update over flag.1.iter().zip(flag.2.iter()), from the k-th pair on
RECURSIVE FlagLoop(_, _)
FlagLoop(g, k) ==
    IF g.panic \/ k > Len(g.flag) THEN g
    ELSE FlagLoop(set_other_keys(g, g.flag[k][2], g.flag[k][1]), k + 1)

update(g, new_word, wordle_result) ==
    FlagLoop(UpdateLoop([g EXCEPT !.flag = <<>>], new_word,
                        word_to_result(wordle_result), 1), 1)


-----------------------------------------------------------------------------
(* WordleGame::check *)

\* what check returns: Ok(()) or Err(e), e described by its kind and its lines
Ok == [kind |-> "Ok", expected |-> 0, violations |-> <<>>, panic |-> FALSE]
NoInformationYet ==
    [kind |-> "NoInformationYet", expected |-> 0, violations |-> <<>>, panic |-> FALSE]
LengthMismatch(n) ==
    [kind |-> "LengthMismatch", expected |-> n, violations |-> <<>>, panic |-> FALSE]
Violations(e) ==
    [kind |-> "Violations", expected |-> 0, violations |-> e, panic |-> FALSE]
CheckPanic == [kind |-> "Panic", expected |-> 0, violations |-> <<>>, panic |-> TRUE]

\* the three lines check writes
FixedViolation(pos, correct_letter, guess_letter) ==
    [type |-> "Expected", pos |-> pos, expected |-> correct_letter, letter |-> guess_letter]
AbsentViolation(pos, letter) ==
    [type |-> "ShouldBeAbsent", pos |-> pos, expected |-> Unknown, letter |-> letter]
NotHereViolation(pos, letter) ==
    [type |-> "ShouldNotBeHere", pos |-> pos, expected |-> Unknown, letter |-> letter]

\* the first loop stops at the first letter that differs
RECURSIVE CheckKnownFirstOnly(_, _, _, _)
CheckKnownFirstOnly(g, word, k, e) ==
    IF k > Len(g.perfect_guess_so_far) \/ k > Len(word) THEN e
    ELSE LET correct_letter == g.perfect_guess_so_far[k]
             guess_letter == word[k]
         IN  IF correct_letter # Unknown /\ correct_letter # guess_letter
             THEN Append(e, FixedViolation(k - 1, correct_letter, guess_letter))
             ELSE CheckKnownFirstOnly(g, word, k + 1, e)

\* the first loop of check, over perfect_guess_so_far.iter().zip(word.char_indices()),
\* from the k-th pair on
RECURSIVE CheckKnown(_, _, _, _)
CheckKnown(g, word, k, e) ==
    IF k > Len(g.perfect_guess_so_far) \/ k > Len(word) THEN e
    ELSE LET correct_letter == g.perfect_guess_so_far[k]
             guess_letter == word[k]
         IN  CheckKnown(g, word, k + 1,
                 IF correct_letter # Unknown /\ correct_letter # guess_letter
                 THEN Append(e, FixedViolation(k - 1, correct_letter, guess_letter))
                 ELSE e)

\* the second loop of check, over word.char_indices(), from the k-th letter on;
\* r is the list so far and the panic mark
RECURSIVE CheckPresent(_, _, _, _)
CheckPresent(g, word, k, r) ==
    IF r.panic \/ k > Len(word) THEN r
    ELSE LET letter == word[k]
             pos == k - 1
             p == g.information[letter]
         IN  CheckPresent(g, word, k + 1,
                 IF p.tag = "Absent"
                 THEN [r EXCEPT !.e = Append(@, AbsentViolation(pos, letter))]
                 ELSE IF p.tag = "Present"
                 THEN IF ~InRange(p.v, pos) THEN [r EXCEPT !.panic = TRUE]
                      ELSE IF At(p.v, pos) = "No"
                      THEN [r EXCEPT !.e = Append(@, NotHereViolation(pos, letter))]
                      ELSE r
                 ELSE r)

\* the length is looked at before the map
check_length_first(g, word) ==
    IF Len(word) # g.num THEN LengthMismatch(g.num)
    ELSE IF \A c \in Alphabet : g.information[c].tag = "None" THEN NoInformationYet
    ELSE LET r == CheckPresent(g, word, 1,
                      [e |-> CheckKnown(g, word, 1, <<>>), panic |-> FALSE])
         IN  IF r.panic THEN CheckPanic
             ELSE IF r.e # <<>> THEN Violations(r.e)
             ELSE Ok

\* the length line is written and the two loops run all the same
check_no_return(g, word) ==
    IF \A c \in Alphabet : g.information[c].tag = "None" THEN NoInformationYet
    ELSE LET r == CheckPresent(g, word, 1,
                      [e |-> CheckKnown(g, word, 1, <<>>), panic |-> FALSE])
         IN  IF r.panic THEN CheckPanic
             ELSE IF Len(word) # g.num
             THEN [LengthMismatch(g.num) EXCEPT !.violations = r.e]
             ELSE IF r.e # <<>> THEN Violations(r.e)
             ELSE Ok

check(g, word) ==
    IF \A c \in Alphabet : g.information[c].tag = "None" THEN NoInformationYet
    ELSE IF Len(word) # g.num THEN LengthMismatch(g.num)
    ELSE LET r == CheckPresent(g, word, 1,
                      [e |-> CheckKnown(g, word, 1, <<>>), panic |-> FALSE])
         IN  IF r.panic THEN CheckPanic
             ELSE IF r.e # <<>> THEN Violations(r.e)
             ELSE Ok


-----------------------------------------------------------------------------
(* The shell (main.rs): a loop that asks for a command, runs it on the     *)
(* game and shows what it returned                                         *)

\* the WordleGame the state variables hold
Self == Game(num, perfect_guess_so_far, information)

\* no call is running: the shell is at its menu
NoCall == [op |-> "menu", word |-> <<>>, result |-> <<>>, out |-> Ok]

\* "a": game.update(new_word, wordle_result)
Update(new_word, wordle_result) ==
    /\ ~aborted
    /\ last = NoCall
    /\ updates < MaxUpdates
    /\ LET g == update(Self, new_word, wordle_result) IN
        /\ perfect_guess_so_far' = g.perfect_guess_so_far
        /\ information' = g.information
        /\ aborted' = g.panic
    /\ updates' = updates + 1
    /\ last' = [op |-> "update", word |-> new_word, result |-> wordle_result, out |-> Ok]
    /\ UNCHANGED <<num, solution>>

\* "b": game.check(guess)
Check(word) ==
    /\ ~aborted
    /\ last = NoCall
    /\ LET out == check(Self, word) IN
        /\ aborted' = out.panic
        /\ last' = [op |-> "check", word |-> word, result |-> <<>>, out |-> out]
    /\ UNCHANGED <<num, perfect_guess_so_far, information, updates, solution>>

\* the call has returned and the loop is back at its menu
Menu ==
    /\ ~aborted
    /\ last # NoCall
    /\ last' = NoCall
    /\ UNCHANGED <<num, perfect_guess_so_far, information, aborted, updates, solution>>

\* let mut game = WordleGame::init(n)
InitGame(n) ==
    /\ num = n
    /\ perfect_guess_so_far = init(n).perfect_guess_so_far
    /\ information = init(n).information
    /\ aborted = FALSE
    /\ updates = 0
    /\ last = NoCall

-----------------------------------------------------------------------------
(* Spec: guesses and results of the game's length, the results any the     *)
(* user may type; candidates of any length                                 *)

Init ==
    /\ \E n \in 1..MaxNum : InitGame(n)
    /\ solution = <<>>

UpdateAny ==
    \E w \in WordsOver(Letters, num), r \in WordsOver(ResultChars, num) : Update(w, r)

CheckAny ==
    \E w \in WordsUpTo(Letters, MaxNum + 1) : Check(w)

Next == UpdateAny \/ CheckAny \/ Menu

Spec == Init /\ [][Next]_vars


-----------------------------------------------------------------------------
(* SpecAnyLen: guesses, results and candidates of any length               *)

UpdateAnyLen ==
    \E w \in WordsUpTo(Letters, MaxNum + 1), r \in WordsUpTo(ResultChars, MaxNum + 1) :
        Update(w, r)

NextAnyLen == UpdateAnyLen \/ CheckAny \/ Menu

SpecAnyLen == Init /\ [][NextAnyLen]_vars

-----------------------------------------------------------------------------
(* SpecGame: a game of Wordle.  The puzzle has a solution and scores each  *)
(* guess against it; the user types the guess and its score into the shell *)

Min(P) == CHOOSE m \in P : \A q \in P : m <= q

\* the positions of S equal to the guess: the Hits
Hits(S, guess) == {j \in 1..Len(S) : guess[j] = S[j]}

\* the score of the guess from its k-th letter on; used holds the positions of
\* S already matched by a Hit or by a Present to the left
RECURSIVE ScoreFrom(_, _, _, _)
ScoreFrom(S, guess, k, used) ==
    IF k > Len(guess) THEN <<>>
    ELSE IF guess[k] = S[k] THEN <<"y">> \o ScoreFrom(S, guess, k + 1, used)
    ELSE LET free == {j \in 1..Len(S) : j \notin used /\ S[j] = guess[k]} IN
         IF free # {}
         THEN <<"m">> \o ScoreFrom(S, guess, k + 1, used \cup {Min(free)})
         ELSE <<"n">> \o ScoreFrom(S, guess, k + 1, used)

Score(S, guess) == ScoreFrom(S, guess, 1, Hits(S, guess))

InitOfGame ==
    /\ \E n \in 1..MaxGameNum : InitGame(n)
    /\ solution \in WordsOver(GameLetters, num)

Guess ==
    \E w \in WordsOver(GameLetters, num) : Update(w, Score(solution, w))

CheckSolution == Check(solution)

NextGame == Guess \/ CheckSolution \/ Menu

SpecGame == InitOfGame /\ [][NextGame]_vars

-----------------------------------------------------------------------------
(* SpecScenario: the sessions of four-letter games that guess "soda"       *)

Soda == <<"s", "o", "d", "a">>
Sand == <<"s", "a", "n", "d">>

InitScenario ==
    /\ InitGame(Len(Soda))
    /\ solution = <<>>

UpdateSoda == \E r \in WordsOver(ResultChars, num) : Update(Soda, r)

CheckScenario == \E w \in {Soda, Sand} : Check(w)

NextScenario == UpdateSoda \/ CheckScenario \/ Menu

SpecScenario == InitScenario /\ [][NextScenario]_vars


-----------------------------------------------------------------------------
(* Properties *)

Positions == 0..(num - 1)
Tracked(c) == information[c].tag # "None"
IsPresent(c) == information[c].tag = "Present"
Cell(c, p) == At(information[c].v, p)
LastResults == word_to_result(last.result)

\* C1: monotonic narrowing.  In every step, for every letter that has a
\* Present record before and after it and every position p: a cell that is No
\* (Absent) is not Maybe or Yes afterwards, and a cell that is Yes (Confirmed)
\* is not No afterwards.
C1_MonotonicNarrowing ==
    [][\A c \in Alphabet : \A p \in Positions :
         (IsPresent(c) /\ IsPresent(c)' /\ InRange(information[c].v, p)
             /\ InRange(information'[c].v, p))
         => /\ Cell(c, p) = "No" => Cell(c, p)' = "No"
            /\ Cell(c, p) = "Yes" => Cell(c, p)' # "No"]_vars

\* C2: mutual exclusion after update.  In the state right after an update,
\* for every position p whose result is Yes (a Hit) for the letter L of the
\* guess: perfect_guess_so_far[p] = L and every other letter with a Present
\* record has its cell p at No.
C2_MutualExclusion ==
    (last.op = "update" /\ ~aborted) =>
        \A p \in Positions :
            At(LastResults, p) = "Yes" =>
                /\ At(perfect_guess_so_far, p) = At(last.word, p)
                /\ \A c \in Alphabet \ {At(last.word, p)} :
                       IsPresent(c) => Cell(c, p) = "No"

\* a first round with two Hits, the second letter inserted after the first Hit
C2_Witness ==
    /\ last.op = "update"
    /\ updates = 1
    /\ last.word = <<"a", "b">>
    /\ last.result = <<"y", "y">>
    /\ perfect_guess_so_far = <<"a", "b">>
    /\ information["b"] = Present(<<"No", "Yes">>)

\* C3: soundness against the solution.  In a game whose guesses are scored
\* against the solution, check(solution) never reports a violation: it returns
\* Ok, or NoInformationYet before the first guess.
C3_SolutionPassesCheck ==
    (last.op = "check" /\ last.word = solution) =>
        last.out.kind \in {"Ok", "NoInformationYet"}

\* the positions 0-based, ascending
RECURSIVE Ascending(_)
Ascending(P) ==
    IF P = {} THEN <<>> ELSE <<Min(P)>> \o Ascending(P \ {Min(P)})

\* the positions where the candidate differs from a known fixed letter
FixedMismatches(word) ==
    {p \in Positions : /\ At(perfect_guess_so_far, p) # Unknown
                       /\ At(perfect_guess_so_far, p) # At(word, p)}

\* the positions where the candidate's letter is recorded Absent, or Present
\* with that cell at No
RuledOut(word) ==
    {p \in Positions : \/ information[At(word, p)].tag = "Absent"
                       \/ /\ IsPresent(At(word, p))
                          /\ Cell(At(word, p), p) = "No"}

\* C4: check completeness and ordering.  For a non-empty store and a
\* candidate of the game's length, check reports one violation for each
\* position whose known fixed letter differs from the candidate's, in position
\* order, then one for each position whose letter is Absent or ruled out
\* there, in position order, and nothing else; it returns Ok exactly when
\* there is no such position.
C4_CheckComplete ==
    (last.op = "check" /\ (\E c \in Alphabet : Tracked(c)) /\ Len(last.word) = num) =>
        LET e == last.out.violations
            F == Ascending(FixedMismatches(last.word))
            R == Ascending(RuledOut(last.word))
        IN  /\ Len(e) = Len(F) + Len(R)
            /\ \A i \in 1..Len(F) :
                   e[i] = FixedViolation(F[i], At(perfect_guess_so_far, F[i]),
                                         At(last.word, F[i]))
            /\ \A i \in 1..Len(R) :
                   /\ e[Len(F) + i].type \in {"ShouldBeAbsent", "ShouldNotBeHere"}
                   /\ e[Len(F) + i].pos = R[i]
                   /\ e[Len(F) + i].letter = At(last.word, R[i])
            /\ (last.out.kind = "Ok") <=> (Len(F) + Len(R) = 0)
            /\ last.out.kind \in {"Ok", "Violations"}

\* a check that reports two fixed-position violations and then two per-letter ones
C4_Witness ==
    /\ last.op = "check"
    /\ Len(last.word) = num
    /\ Len(last.out.violations) = 4
    /\ Cardinality(FixedMismatches(last.word)) = 2
    /\ Cardinality(RuledOut(last.word)) = 2

\* C5: the empty-state gate.  Before any update, check returns
\* NoInformationYet whatever the candidate and its length; after an update it
\* never does.
C5_EmptyGate ==
    last.op = "check" =>
        /\ updates = 0 => last.out = NoInformationYet
        /\ updates >= 1 => last.out.kind # "NoInformationYet"

\* a check of a candidate of the wrong length on a fresh store
C5_Witness ==
    /\ last.op = "check"
    /\ updates = 0
    /\ Len(last.word) # num
    /\ last.out = NoInformationYet

\* C6: length gate precedence.  On a store with a recorded letter, check of a
\* candidate whose length is not the game's returns LengthMismatch with the
\* expected length and no violation.
C6_LengthGate ==
    (last.op = "check" /\ (\E c \in Alphabet : Tracked(c)) /\ Len(last.word) # num) =>
        last.out = LengthMismatch(num)

\* a wrong-length candidate whose first letter is Absent and misses a fixed letter
C6_Witness ==
    /\ last.op = "check"
    /\ Len(last.word) = num + 1
    /\ perfect_guess_so_far[1] # Unknown
    /\ perfect_guess_so_far[1] # last.word[1]
    /\ information[last.word[1]].tag = "Absent"
    /\ last.out = LengthMismatch(num)

\* C7: no fatal condition.  No update or check call, whatever the lengths of
\* its strings, aborts the process.
C7_NoAbort == ~aborted

\* C8: idempotence of Miss.  In the state right after update(guess, result),
\* calling update(guess, result) again leaves the record of every letter whose
\* result in the guess is No (a Miss) as it is.
C8_MissIdempotent ==
    (last.op = "update" /\ ~aborted) =>
        LET again == update(Self, last.word, last.result) IN
        \A p \in Positions :
            At(LastResults, p) = "No" =>
                again.information[At(last.word, p)] = information[At(last.word, p)]

\* an update with a Miss for a letter that keeps a Present record
C8_Witness ==
    /\ last.op = "update"
    /\ updates >= 2
    /\ \E p \in Positions :
          /\ At(LastResults, p) = "No"
          /\ IsPresent(At(last.word, p))
          /\ \E q \in Positions : Cell(At(last.word, p), q) = "Yes"

\* the four lines check("sand") writes after update("soda", "nnyy")
SandViolations ==
    << FixedViolation(2, "d", "n"), FixedViolation(3, "a", "d"),
       AbsentViolation(0, "s"), NotHereViolation(3, "d") >>

\* C9 as amended: after init(4) and update("soda", "nnyy"), check("sand") fails
\* with exactly 4 violations: the fixed-position mismatches at position 2
\* (expected d, found n) and position 3 (expected a, found d), then the
\* per-letter violations for the Absent letter s at position 0 and for the
\* letter d, ruled out at position 3.
C9_SandFourViolations ==
    (updates = 1 /\ last.op = "update" /\ last.word = Soda
        /\ last.result = <<"n", "n", "y", "y">>) =>
        check(Self, Sand) = Violations(SandViolations)

\* C9 as the specification states it: check("sand") fails with exactly 2
\* violations, the per-letter one for s at position 0 and the fixed-position
\* mismatch at position 3.
C9_SandTwoViolations ==
    (updates = 1 /\ last.op = "update" /\ last.word = Soda
        /\ last.result = <<"n", "n", "y", "y">>) =>
        LET e == check(Self, Sand).violations IN
        /\ Len(e) = 2
        /\ \E i \in 1..Len(e) : e[i] = AbsentViolation(0, "s")
        /\ \E i \in 1..Len(e) : e[i] = FixedViolation(3, "a", "d")

\* check("sand") has run on the store update("soda", "nnyy") leaves
C9_Witness ==
    /\ updates = 1
    /\ last.op = "check"
    /\ last.word = Sand
    /\ perfect_guess_so_far = <<Unknown, Unknown, "d", "a">>
    /\ information["s"] = Absent
    /\ information["o"] = Absent
    /\ information["d"] = Present(<<"Maybe", "Maybe", "Yes", "No">>)
    /\ information["a"] = Present(<<"Maybe", "Maybe", "No", "Yes">>)
    /\ last.out = Violations(SandViolations)

\* C10: size invariants.  perfect_guess_so_far has num entries and every
\* Present record has num cells.
C10_Sizes ==
    /\ Len(perfect_guess_so_far) = num
    /\ \A c \in Alphabet : IsPresent(c) => Len(information[c].v) = num

\* a promoted record (Absent, then a Hit) next to a record generate_new_vec made
C10_Witness ==
    /\ num = 2
    /\ updates = 1
    /\ last.word = <<"a", "a">>
    /\ last.result = <<"n", "y">>
    /\ IsPresent("a")
    /\ Len(information["a"].v) = num

\* C11 as amended: when update processes Somewhere (Present) at position p for
\* a letter recorded Absent, nothing changes: the letter stays Absent, no
\* vector is built and no flag is raised.
C11_SomewhereOnAbsentNoOp ==
    \A c \in Letters : \A p \in Positions :
        information[c] = Absent =>
            UpdateLetter(Self, p, c, "Somewhere", num) = Self

\* C11 as the specification states it: the entry is replaced by a Present
\* record in which every cell, p included, is No (Absent).
C11_SomewhereOnAbsentPromotes ==
    \A c \in Letters : \A p \in Positions :
        information[c] = Absent =>
            UpdateLetter(Self, p, c, "Somewhere", num).information[c]
                = Present(Repeat("No", num))

\* a round whose only result for a is Somewhere, after which a is Absent: a
\* was Absent when the round processed it
C11_Witness ==
    /\ last.op = "update"
    /\ updates >= 2
    /\ last.word = <<"a", "b">>
    /\ last.result = <<"m", "y">>
    /\ information["a"] = Absent
    /\ information["b"] = Present(<<"Maybe", "Yes">>)

\* the positions of the word that hold the letter c
Occurrences(word, c) == {p \in 0..(Len(word) - 1) : At(word, p) = c}

\* C12: repeated letter with one Miss and one Hit.  When an update's guess
\* holds a letter that was not in the map exactly twice, once with No (Miss)
\* at i and once with Yes (Hit) at j, the letter's record after the update is
\* Present with cell j at Yes and every other cell at No, whether i < j (Absent,
\* then promotion) or j < i.
C12_MissAndHit ==
    [][(last'.op = "update" /\ ~aborted') =>
         \A c \in Letters : \A i, j \in Positions :
             (/\ information[c].tag = "None"
              /\ Occurrences(last'.word, c) = {i, j}
              /\ i # j
              /\ At(word_to_result(last'.result), i) = "No"
              /\ At(word_to_result(last'.result), j) = "Yes")
             => information'[c] = Present([q \in 1..num |->
                                     IF q = j + 1 THEN "Yes" ELSE "No"])]_vars

\* the first round of a game: a twice, the Hit before the Miss
C12_Witness ==
    /\ last.op = "update"
    /\ updates = 1
    /\ last.word = <<"a", "a">>
    /\ last.result = <<"y", "n">>
    /\ information["a"] = Present(<<"Yes", "No">>)
    /\ perfect_guess_so_far = <<"a", Unknown>>

\* C13: Miss on a Present letter.  When update processes No (Miss) for a
\* letter with a Present record, every Maybe cell becomes No and every Yes or
\* No cell keeps its value; and in the state right after an update, every
\* letter of the guess whose result is No is Absent, or Present without a
\* Maybe cell.
C13_MissOnPresent ==
    /\ \A c \in Letters : \A p \in Positions :
          IsPresent(c) =>
              LET after == UpdateLetter(Self, p, c, "No", num).information[c] IN
              /\ after.tag = "Present"
              /\ Len(after.v) = Len(information[c].v)
              /\ \A q \in Positions :
                    At(after.v, q) = IF Cell(c, q) = "Maybe" THEN "No" ELSE Cell(c, q)
    /\ (last.op = "update" /\ ~aborted) =>
          \A p \in Positions :
              At(LastResults, p) = "No" =>
                  \/ information[At(last.word, p)] = Absent
                  \/ /\ IsPresent(At(last.word, p))
                     /\ \A q \in Positions : Cell(At(last.word, p), q) # "Maybe"

\* a round of two Misses on two Present letters: their Maybe cells are now No
C13_Witness ==
    /\ last.op = "update"
    /\ last.word = <<"a", "b">>
    /\ last.result = <<"n", "n">>
    /\ information["a"] = Present(<<"No", "No">>)
    /\ information["b"] = Present(<<"No", "No">>)
    /\ perfect_guess_so_far = <<Unknown, Unknown>>

\* every known letter of perfect_guess_so_far has a Present record whose cell
\* at that position is Yes
FixedIsConfirmed ==
    \A p \in Positions :
        At(perfect_guess_so_far, p) # Unknown =>
            /\ IsPresent(At(perfect_guess_so_far, p))
            /\ Cell(At(perfect_guess_so_far, p), p) = "Yes"

\* C14 as the specification states it: in every reachable state, whatever the
\* feedback was, if perfect_guess_so_far[p] is a known letter L then L has a
\* Present record with cell p at Yes (Confirmed).
C14_FixedIsConfirmed == FixedIsConfirmed

\* the round gives Somewhere (Present) for a letter at a position fixed to it
Retracts(word, results) ==
    \E p \in Positions :
        /\ At(perfect_guess_so_far, p) # Unknown
        /\ At(word, p) = At(perfect_guess_so_far, p)
        /\ At(results, p) = "Somewhere"

\* C14 as amended: it holds in the initial state and every update keeps it,
\* unless the update gives feedback Somewhere (Present) for a letter at a
\* position already fixed to that letter; so it holds in every state reached
\* by updates none of which contradicts an earlier Hit in that way.
C14_FixedIsConfirmedUnlessRetracted ==
    /\ updates = 0 => FixedIsConfirmed
    /\ [][(/\ FixedIsConfirmed
           /\ last'.op = "update"
           /\ ~Retracts(last'.word, word_to_result(last'.result)))
          => FixedIsConfirmed']_vars

\* position 0 was fixed to a, and a later round fixed it to b: b is Confirmed
\* there and a no longer is
C14_Witness ==
    /\ last.op = "update"
    /\ updates >= 2
    /\ last.word = <<"b", "a">>
    /\ last.result = <<"y", "n">>
    /\ perfect_guess_so_far = <<"b", Unknown>>
    /\ information["a"] = Present(<<"No", "No">>)
    /\ information["b"] = Present(<<"Yes", "No">>)
    /\ FixedIsConfirmed

\* the letters whose record has cell p at Yes
ConfirmedAt(p) == {c \in Alphabet : IsPresent(c) /\ Cell(c, p) = "Yes"}

\* C15: at most one letter per position.  In every reachable state, whatever
\* the feedback was, at most one letter has its cell p at Yes (Confirmed), for
\* every position p.
C15_OneLetterPerPosition ==
    \A p \in Positions : Cardinality(ConfirmedAt(p)) <= 1

\* a third or later round, with a Hit for a and a Hit for b: each position has
\* exactly one Confirmed letter
C15_Witness ==
    /\ last.op = "update"
    /\ updates >= 3
    /\ last.word = <<"a", "b">>
    /\ last.result = <<"y", "y">>
    /\ ConfirmedAt(0) = {"a"}
    /\ ConfirmedAt(1) = {"b"}
    /\ information["a"] = Present(<<"Yes", "No">>)
    /\ information["b"] = Present(<<"No", "Yes">>)

\* C16 as the specification states it: in every reachable state, for every
\* position p where perfect_guess_so_far[p] is a known letter L, every other
\* letter with a Present record has cell p at No (Absent), also a letter first
\* inserted by a later update.
C16_ExclusionPersists ==
    \A p \in Positions :
        At(perfect_guess_so_far, p) # Unknown =>
            \A c \in Alphabet \ {At(perfect_guess_so_far, p)} :
                IsPresent(c) => Cell(c, p) = "No"

\* the positions of the round whose result is Yes (a Hit)
HitPositions(results) == {p \in 0..(Len(results) - 1) : At(results, p) = "Yes"}

\* the letter c gets a Miss somewhere in the round
HasMiss(word, results, c) ==
    \E q \in Occurrences(word, c) : At(results, q) = "No"

\* C16 as amended.  In every reachable state no letter other than the fixed
\* letter of a position has its cell there at Yes.  After an update, for
\* every position p fixed to a known letter and every other letter c with a
\* Present record: when p got a Hit in this round, cell p of c is No, also for
\* a letter the round inserted; when p got no Hit and c was in the map before
\* the round, Absent or with cell p at No, cell p of c is No; when p got no
\* Hit and the round inserted c, cell p of c is Maybe if the round gave c no
\* Miss and did not guess c at p, and No otherwise.
C16_ExclusionOfTrackedLetters ==
    /\ [](\A p \in Positions :
            At(perfect_guess_so_far, p) # Unknown =>
                \A c \in Alphabet \ {At(perfect_guess_so_far, p)} :
                    IsPresent(c) => Cell(c, p) # "Yes")
    /\ [][(last'.op = "update" /\ ~aborted') =>
            LET word == last'.word
                results == word_to_result(last'.result)
                hits == HitPositions(results)
            IN  \A p \in Positions : \A c \in Alphabet :
                    (/\ At(perfect_guess_so_far', p) # Unknown
                     /\ c # At(perfect_guess_so_far', p)
                     /\ IsPresent(c)')
                    => /\ p \in hits => Cell(c, p)' = "No"
                       /\ (/\ p \notin hits
                           /\ Tracked(c)
                           /\ IsPresent(c) => Cell(c, p) = "No")
                          => Cell(c, p)' = "No"
                       /\ (p \notin hits /\ ~Tracked(c))
                          => Cell(c, p)' =
                                 IF \/ HasMiss(word, results, c)
                                    \/ p \in Occurrences(word, c)
                                 THEN "No" ELSE "Maybe"]_vars

\* position 0 is fixed to a, and b, inserted by this later round, has its cell
\* 0 at Maybe
C16_Witness ==
    /\ last.op = "update"
    /\ updates >= 2
    /\ last.word = <<"a", "b">>
    /\ last.result = <<"n", "m">>
    /\ perfect_guess_so_far = <<"a", Unknown>>
    /\ information["a"] = Present(<<"Yes", "No">>)
    /\ information["b"] = Present(<<"Maybe", "No">>)

\* C17: update is idempotent.  In the state right after update(guess, result),
\* calling update(guess, result) again changes neither perfect_guess_so_far
\* nor any record of the map.
C17_UpdateIdempotent ==
    (last.op = "update" /\ ~aborted) =>
        LET again == update(Self, last.word, last.result) IN
        /\ ~again.panic
        /\ again.perfect_guess_so_far = perfect_guess_so_far
        /\ again.information = information

\* a later round with a Hit and a Present: it fixed position 0 and ruled b out
\* of both positions
C17_Witness ==
    /\ last.op = "update"
    /\ updates >= 2
    /\ last.word = <<"a", "b">>
    /\ last.result = <<"y", "m">>
    /\ perfect_guess_so_far = <<"a", Unknown>>
    /\ IsPresent("a") /\ Cell("a", 0) = "Yes"
    /\ information["b"] = Present(<<"No", "No">>)

\* C18: frame of update.  An update changes perfect_guess_so_far only at the
\* positions whose result is Yes, removes no key of the map, and changes the
\* record of a letter of the map that is not in the guess only by writing No
\* into the cells at the positions whose result is Yes; without a Yes in the
\* results, perfect_guess_so_far and the records of all letters not in the
\* guess are unchanged.
C18_UpdateFrame ==
    [][(last'.op = "update" /\ ~aborted') =>
         LET word == last'.word
             hits == HitPositions(word_to_result(last'.result))
             others == {c \in Alphabet : Occurrences(word, c) = {}}
         IN  /\ \A p \in Positions \ hits :
                    At(perfect_guess_so_far', p) = At(perfect_guess_so_far, p)
             /\ \A c \in Alphabet : Tracked(c) => Tracked(c)'
             /\ \A c \in others :
                    /\ information'[c].tag = information[c].tag
                    /\ Len(information'[c].v) = Len(information[c].v)
                    /\ IsPresent(c) =>
                           \A p \in Positions :
                               Cell(c, p)' = IF p \in hits THEN "No" ELSE Cell(c, p)
             /\ hits = {} =>
                    /\ perfect_guess_so_far' = perfect_guess_so_far
                    /\ \A c \in others : information'[c] = information[c]]_vars

\* a round without b that has a Hit at position 0: b keeps its record but for
\* cell 0, now No, and position 1 stays unknown
C18_Witness ==
    /\ last.op = "update"
    /\ updates >= 2
    /\ last.word = <<"a", "a">>
    /\ last.result = <<"y", "m">>
    /\ perfect_guess_so_far = <<"a", Unknown>>
    /\ information["a"] = Present(<<"Yes", "No">>)
    /\ information["b"] = Present(<<"No", "Maybe">>)

=============================================================================
